---- MODULE Spec2Model ----
(***************************************************************************)
(* spunge: replace a file's contents from a streamed input, optionally     *)
(* keeping a backup of the old contents.  The model follows main.go,       *)
(* lines 1-460: the orchestrator SpongeAction, the Transfer loop, the      *)
(* three sponges (MemorySponge, AtomicSponge, AtomicMemorySponge), the     *)
(* ConcurrentBackup controller and the Copy / DoConcurrentCopy worker.     *)
(*                                                                         *)
(* The file system is a directory (path -> inode) and an inode table, so   *)
(* that hard links, renames and truncating writes act as they do on a      *)
(* POSIX file system.  Every error branch the code has for a system call   *)
(* is taken by a nondeterministic choice of the environment.               *)
(*                                                                         *)
(* Spec is a run of SpongeAction, and FairSpec the same run with both       *)
(* goroutines scheduled fairly.  SpecTransfer is the Transfer loop over     *)
(* any io.Reader; SpecCopy is the run up to the call of Copy; and          *)
(* SpecBackupFile and SpecTempDir are the resolution of a template by      *)
(* BackupFile and by TempDir, one statement at a time.                     *)
(***************************************************************************)
EXTENDS Naturals, Sequences

VARIABLES
    cfg,        \* command line: [nargs, atomic, memory, backup, input]
    pre,        \* the target as it was before the run (never changes)
    dir,        \* file system: path -> inode name, or NoInode
    ino,        \* file system: inode name -> [kind, data, mode]
    pc,         \* position of the foreground flow in SpongeAction
    ret,        \* the value SpongeAction returns (decided before pc = "done")
    data,       \* MemorySponge.Data / AtomicMemorySponge.Data
    sponge,     \* AtomicSponge: [fn, open] (SpongeFn, Sponge != nil)
    done,       \* ConcurrentBackup.Done: "nil", "open" or "closed"
    worker,     \* the DoConcurrentCopy goroutine: [pc, pos, err, src, dst]
    consumed,   \* history: the bytes the Transfer loop has read, in order
    reads,      \* history: number of Read calls made
    calls,      \* history: the controller methods called, in order
    mutations,  \* history: the changes made to the target path, in order
    staged,     \* history: number of staging files created
    received,   \* history: the values received from Done, in order
    writeFailed, \* history: a Stage.Write of the Transfer loop returned an error
    readErr,    \* history: the error of the latest Read ("nil" before the first)
    cleanupErr, \* history: what sf.Cleanup() returned ("none" before it ran)
    preBackup,  \* the backup path as it was before the run (never changes)
    expand,     \* BackupFile: [template, targetFn, backupFile, step]
    copy,       \* history: what the latest call of Copy found and decided
    resolve     \* TempDir: [tempDir, targetFn, result, step]

\* the variables of a run of SpongeAction
runVars == <<cfg, pre, dir, ino, pc, ret, data, sponge, done, worker,
             consumed, reads, calls, mutations, staged, received, writeFailed,
             readErr, cleanupErr, preBackup>>

vars == <<runVars, expand, copy, resolve>>

----------------------------------------------------------------------------
(* Bounds of the model. *)

\* the longest original target contents
MaxOrig == 3
\* the most bytes the input stream delivers in one run
MaxInput == 3
\* the most Read calls of one run
MaxReads == 3

\* The program never looks at the value of a byte, so the k-th byte of the
\* original file and the k-th byte of a stream are told apart by name.
OrigData(n) == [k \in 1..n |-> <<"orig", k>>]

\* the bytes from + 1 .. from + n of stream s ("stdin", or "file" for --input)
StreamData(s, from, n) == [k \in 1..n |-> <<s, from + k>>]

\* OpenInput, lines 122-128: the stream SpongeAction holds as in
OpenedInput == IF cfg.input = "stdin" THEN "stdin" ELSE "file"

\* the stream SpongeAction hands to Transfer, line 88: os.Stdin, whatever in is
TransferIn == "stdin"

\* what in.Read(buf) of the Transfer loop delivers
InputData(from, n) == StreamData(TransferIn, from, n)

Prefix(s, n) == SubSeq(s, 1, n)

----------------------------------------------------------------------------
(* The file system. *)

Paths == {"target", "backup", "sponge"}
NoInode == "none"
InodeNames == {"orig", "bak", "sponge", "new"}

\* permission bits are written as in the source: "0600", "0644", "0755"
\* var DEFAULT_MODE os.FileMode = 0600
DEFAULT_MODE == "0600"
\* ioutil.TempFile creates the file with mode 0600
TempFileMode == "0600"
\* os.Create creates with 0666, less the process's umask (022)
CreateMode == "0644"

FreeInode == [kind |-> "free", data |-> <<>>, mode |-> "0600"]

Exists(d, p) == d[p] # NoInode

\* the path the backup template resolves to (NewConcurrentBackup)
BackupFn == IF cfg.backup = "same" THEN "target" ELSE "backup"

\* os.Link(src, dest): a second name for src's inode
LinkFs(d, src, dest) == [d EXCEPT ![dest] = d[src]]

\* os.Create(dest): truncates an existing file, keeping its permission bits, or
\* makes a new empty one with CreateMode
CreateDir(d, dest) == IF Exists(d, dest) THEN d ELSE [d EXCEPT ![dest] = "bak"]

CreateIno(d, i, dest) ==
    IF Exists(d, dest)
    THEN [i EXCEPT ![d[dest]].data = <<>>]
    ELSE [i EXCEPT !["bak"] = [kind |-> "regular", data |-> <<>>, mode |-> CreateMode]]

\* a faulty Begin: the staging file is created under the target's own name
TempFileDirOnTarget(d) == [d EXCEPT !["sponge"] = "sponge", !["target"] = "sponge"]

\* ioutil.TempFile(dir, ".sponge"): a new, empty file under a fresh name
TempFileDir(d) == [d EXCEPT !["sponge"] = "sponge"]

TempFileIno(i) ==
    [i EXCEPT !["sponge"] = [kind |-> "regular", data |-> <<>>, mode |-> TempFileMode]]

\* os.Chmod(p, m)
ChmodIno(d, i, p, m) == [i EXCEPT ![d[p]].mode = m]

\* os.Rename(from, to): the name `to` now names from's inode; `from` is gone
RenameDir(d, from, to) == [d EXCEPT ![to] = d[from], ![from] = NoInode]

\* a faulty removal: of the target, not of the path given
RemoveDirTarget(d, p) == [d EXCEPT !["target"] = NoInode]

\* os.Remove(p)
RemoveDir(d, p) == [d EXCEPT ![p] = NoInode]

\* ioutil.WriteFile(p, bytes, perm): O_WRONLY|O_CREATE|O_TRUNC, then the write;
\* w is the number of bytes that reach the file.  An existing file keeps its
\* permission bits; perm is used only when the file is created.
WriteFileDir(d, p) == IF Exists(d, p) THEN d ELSE [d EXCEPT ![p] = "new"]

WriteFileIno(d, i, p, bytes, perm, w) ==
    IF Exists(d, p)
    THEN [i EXCEPT ![d[p]].data = Prefix(bytes, w)]
    ELSE [i EXCEPT !["new"] = [kind |-> "regular", data |-> Prefix(bytes, w), mode |-> perm]]

\* what a reader of path p sees: absent, or the file's kind, contents and bits
FileAt(d, i, p) ==
    IF Exists(d, p)
    THEN [exists |-> TRUE, kind |-> i[d[p]].kind, data |-> i[d[p]].data, mode |-> i[d[p]].mode]
    ELSE [exists |-> FALSE, kind |-> "none", data |-> <<>>, mode |-> "0600"]

Target == FileAt(dir, ino, "target")
BackupCopy == FileAt(dir, ino, "backup")

----------------------------------------------------------------------------
(* Backup-path templates: BackupFile, path.Dir, path.Base, strings.Replace. *)

\* A string is a sequence of atoms.  Each of the three tokens is one atom, "/"
\* is one atom, and every other atom stands for a run of characters that holds
\* no brace and no slash; so a token occurs in a string exactly where its atom
\* does.  A file name may itself be the text of a token.
MaxTemplateLen == 4
MaxDepth == 2

TemplateAtoms == {"{dir}", "{base}", "{file}", "/", ".bak"}
NameAtoms == {"tmp", "foo", "{base}", "{file}"}

\* the templates given to --backup
Templates == UNION {[1..n -> TemplateAtoms] : n \in 0..MaxTemplateLen}

\* relative paths of d components
RECURSIVE RelPaths(_)
RelPaths(d) ==
    IF d = 1 THEN {<<c>> : c \in NameAtoms}
    ELSE {p \o <<"/", c>> : p \in RelPaths(d - 1), c \in NameAtoms}

\* the target paths given on the command line: clean paths, relative or
\* absolute, that name a file
TargetFns ==
    UNION {RelPaths(d) \cup {<<"/">> \o p : p \in RelPaths(d)} : d \in 1..MaxDepth}

\* the index of the last "/" of p, or 0
RECURSIVE LastSlash(_, _)
LastSlash(p, k) == IF k = 0 \/ p[k] = "/" THEN k ELSE LastSlash(p, k - 1)

\* path.Base(p) of a clean path that names a file: what follows the last slash
PathBase(p) == SubSeq(p, LastSlash(p, Len(p)) + 1, Len(p))

\* path.Dir(p) of a clean path: what precedes the last slash; "." when there is
\* no slash, "/" when the only slash is the leading one
PathDir(p) ==
    LET k == LastSlash(p, Len(p))
    IN  IF k = 0 THEN <<".">> ELSE IF k = 1 THEN <<"/">> ELSE SubSeq(p, 1, k - 1)

\* strings.Replace(s, old, new, -1) for a token old: one pass over s, left to
\* right; the text put in is not scanned again by this call
RECURSIVE StringsReplace(_, _, _)
StringsReplace(s, old, new) ==
    IF s = <<>> THEN <<>>
    ELSE (IF Head(s) = old THEN new ELSE <<Head(s)>>) \o StringsReplace(Tail(s), old, new)

\* no template is being resolved
NoExpansion == [template |-> <<>>, targetFn |-> <<>>, backupFile |-> <<>>, step |-> 0]

\* TempDir is not being computed
NoResolve == [tempDir |-> <<>>, targetFn |-> <<>>, result |-> <<>>, step |-> "none"]

----------------------------------------------------------------------------
(* Construction: GetBackup, GetSpongeFile. *)

\* GetBackup: NoBackup unless --backup is given
BackupKind == IF cfg.backup = "none" THEN "NoBackup" ELSE "ConcurrentBackup"

\* GetSpongeFile: AtomicSponge unless --memory; with --memory, AtomicMemorySponge
\* if --atomic, else MemorySponge
SpongeKind ==
    IF ~cfg.memory THEN "AtomicSponge"
    ELSE IF cfg.atomic THEN "AtomicMemorySponge"
    ELSE "MemorySponge"

\* c.GlobalBool("leave-dirty"): the flag is not among app.Flags, so it reads false
LeaveDirty == FALSE

----------------------------------------------------------------------------
(* Initial states. *)

TargetModes == {"0600", "0755"}

\* the contents of a file that already sits at the backup path
OldBackupData == <<<<"old", 1>>, <<"old", 2>>, <<"old", 3>>>>

NoWorker == [pc |-> "none", pos |-> 0, err |-> "nil", src |-> NoInode, dst |-> NoInode]

\* Copy has not been called
NoCopy == [called |-> FALSE]

InitTargets ==
    {[exists |-> FALSE, kind |-> "none", data |-> <<>>, mode |-> "0600"]}
    \cup {[exists |-> TRUE, kind |-> "regular", data |-> o, mode |-> m] :
            o \in {OrigData(n) : n \in 0..MaxOrig}, m \in TargetModes}
    \cup {[exists |-> TRUE, kind |-> "dir", data |-> <<>>, mode |-> "0755"]}

\* what sits at the backup path before the run
InitBackups(t) ==
    {"absent", "file", "dir"} \cup (IF t.exists /\ t.kind = "regular" THEN {"link"} ELSE {})

Init ==
    /\ cfg \in [nargs : {0, 1, 2}, atomic : BOOLEAN, memory : BOOLEAN,
                backup : {"none", "same", "other"},
                input : {"stdin", "file", "unopenable"}]
    /\ pre \in InitTargets
    /\ \E b \in InitBackups(pre) :
         /\ cfg.backup # "other" => b = "absent"
         /\ dir = [p \in Paths |->
                     CASE p = "target" -> IF pre.exists THEN "orig" ELSE NoInode
                       [] p = "backup" -> CASE b = "absent" -> NoInode
                                            [] b = "link" -> "orig"
                                            [] OTHER -> "bak"
                       [] OTHER -> NoInode]
         /\ ino = [n \in InodeNames |->
                     CASE n = "orig" /\ pre.exists ->
                            [kind |-> pre.kind, data |-> pre.data, mode |-> pre.mode]
                       [] n = "bak" /\ b = "file" ->
                            [kind |-> "regular", data |-> OldBackupData, mode |-> "0644"]
                       [] n = "bak" /\ b = "dir" ->
                            [kind |-> "dir", data |-> <<>>, mode |-> "0755"]
                       [] OTHER -> FreeInode]
    /\ pc = "start"
    /\ ret = "running"
    /\ data = <<>>
    /\ sponge = [fn |-> "", open |-> FALSE]
    /\ done = "nil"
    /\ worker = NoWorker
    /\ consumed = <<>>
    /\ reads = 0
    /\ calls = <<>>
    /\ mutations = <<>>
    /\ staged = 0
    /\ received = <<>>
    /\ writeFailed = FALSE
    /\ readErr = "nil"
    /\ cleanupErr = "none"
    /\ preBackup = FileAt(dir, ino, "backup")
    /\ expand = NoExpansion
    /\ copy = NoCopy
    /\ resolve = NoResolve

----------------------------------------------------------------------------
(* The orchestrator, SpongeAction: configuration. *)

\* a faulty check: --atomic is accepted without --memory
ConfigErrorNoAtomicCheck ==
    IF cfg.nargs = 0 THEN "Destination file required."
    ELSE IF cfg.nargs > 1 THEN "Can only sponge to one destination."
    ELSE "nil"

\* a faulty check: more than one target path is accepted
ConfigErrorManyTargets ==
    IF cfg.nargs = 0 THEN "Destination file required."
    ELSE IF cfg.atomic /\ ~cfg.memory THEN "--atomic makes no sense wihout --memory"
    ELSE "nil"

\* lines 56-64: the checks made before anything is constructed
ConfigError ==
    IF cfg.nargs = 0 THEN "Destination file required."
    ELSE IF cfg.nargs > 1 THEN "Can only sponge to one destination."
    ELSE IF cfg.atomic /\ ~cfg.memory THEN "--atomic makes no sense wihout --memory"
    ELSE "nil"

\* OpenInput: os.Stdin unless --input names a file, which os.Open may refuse
OpenInputError == IF cfg.input = "unopenable" THEN "open input" ELSE "nil"

Configure ==
    /\ pc = "start"
    /\ IF ConfigError # "nil"
       THEN ret' = ConfigError /\ pc' = "done"
       ELSE IF OpenInputError # "nil"
       THEN ret' = OpenInputError /\ pc' = "done"
       ELSE ret' = ret /\ pc' = "bfBegin"
    /\ UNCHANGED <<cfg, pre, dir, ino, data, sponge, done, worker, consumed, reads,
                   calls, mutations, staged, received, writeFailed, readErr,
                   cleanupErr, preBackup>>
    /\ UNCHANGED <<expand, copy, resolve>>

----------------------------------------------------------------------------
(* The Duplication Worker: Copy and DoConcurrentCopy. *)

\* a faulty Copy: the test src == dest comes after the test for a missing source
CopyOutcomeEqLate(eq, srcStat, srcRegular, dstStat, dstRegular, same, linkOk, openOk, createOk) ==
    IF srcStat = "notexist" THEN "skip: no source"
    ELSE IF eq THEN "Will not copy to same filename."
    ELSE IF srcStat = "err" THEN "stat source"
    ELSE IF ~srcRegular THEN "Cannot copy non-regular source file"
    ELSE IF dstStat = "err" THEN "stat destination"
    ELSE IF dstStat = "ok" /\ ~dstRegular THEN "Cannot copy to non-regular destination"
    ELSE IF same THEN "skip: same file"
    ELSE IF linkOk THEN "linked"
    ELSE IF ~openOk THEN "open source"
    ELSE IF ~createOk THEN "create destination"
    ELSE "pending"

\* a faulty Copy: a missing source is not told apart from a failed stat
CopyOutcomeMissingIsError(eq, srcStat, srcRegular, dstStat, dstRegular, same, linkOk, openOk, createOk) ==
    IF eq THEN "Will not copy to same filename."
    ELSE IF srcStat # "ok" THEN "stat source"
    ELSE IF ~srcRegular THEN "Cannot copy non-regular source file"
    ELSE IF dstStat = "err" THEN "stat destination"
    ELSE IF dstStat = "ok" /\ ~dstRegular THEN "Cannot copy to non-regular destination"
    ELSE IF same THEN "skip: same file"
    ELSE IF linkOk THEN "linked"
    ELSE IF ~openOk THEN "open source"
    ELSE IF ~createOk THEN "create destination"
    ELSE "pending"

\* a faulty Copy: the destination's kind is not looked at
CopyOutcomeAnyDestination(eq, srcStat, srcRegular, dstStat, dstRegular, same, linkOk, openOk, createOk) ==
    IF eq THEN "Will not copy to same filename."
    ELSE IF srcStat = "notexist" THEN "skip: no source"
    ELSE IF srcStat = "err" THEN "stat source"
    ELSE IF ~srcRegular THEN "Cannot copy non-regular source file"
    ELSE IF dstStat = "err" THEN "stat destination"
    ELSE IF same THEN "skip: same file"
    ELSE IF linkOk THEN "linked"
    ELSE IF ~openOk THEN "open source"
    ELSE IF ~createOk THEN "create destination"
    ELSE "pending"

\* Copy's decision, in the order of the code.  eq: src == dest; srcStat and
\* dstStat: "ok", "notexist" or "err"; same: os.SameFile; linkOk, openOk,
\* createOk: whether os.Link, os.Open and os.Create succeed.
CopyOutcome(eq, srcStat, srcRegular, dstStat, dstRegular, same, linkOk, openOk, createOk) ==
    IF eq THEN "Will not copy to same filename."
    ELSE IF srcStat = "notexist" THEN "skip: no source"
    ELSE IF srcStat = "err" THEN "stat source"
    ELSE IF ~srcRegular THEN "Cannot copy non-regular source file"
    ELSE IF dstStat = "err" THEN "stat destination"
    ELSE IF dstStat = "ok" /\ ~dstRegular THEN "Cannot copy to non-regular destination"
    ELSE IF same THEN "skip: same file"
    ELSE IF linkOk THEN "linked"
    ELSE IF ~openOk THEN "open source"
    ELSE IF ~createOk THEN "create destination"
    ELSE "pending"

CopyIsError(o) ==
    o \in {"Will not copy to same filename.", "stat source",
           "Cannot copy non-regular source file", "stat destination",
           "Cannot copy to non-regular destination", "open source",
           "create destination"}

\* os.Stat(p) on the model's file system: an absent path is reported as such;
\* fault: the stat of a file that is there fails (EACCES, EIO)
StatOf(d, p, fault) ==
    IF ~Exists(d, p) THEN "notexist" ELSE IF fault THEN "err" ELSE "ok"

\* what Copy(cb.SourceFn, cb.BackupFn) finds: the two paths and the file
\* system as they are, and the environment's answer to each system call.
\* srcFault, dstFault: the os.Stat of a file that is there fails; linkOk,
\* openOk, createOk: os.Link, os.Open and os.Create succeed.
CopyInputs(srcFault, dstFault, linkOk, openOk, createOk) ==
    LET dest == BackupFn
        srcStat == StatOf(dir, "target", srcFault)
        dstStat == StatOf(dir, dest, dstFault)
    IN  [eq |-> dest = "target",
         srcStat |-> srcStat,
         srcRegular |-> srcStat = "ok" /\ ino[dir["target"]].kind = "regular",
         dstStat |-> dstStat,
         dstRegular |-> dstStat = "ok" /\ ino[dir[dest]].kind = "regular",
         same |-> srcStat = "ok" /\ dstStat = "ok" /\ dir["target"] = dir[dest],
         \* os.Link fails when dest exists
         linkOk |-> linkOk /\ dstStat = "notexist",
         openOk |-> openOk,
         createOk |-> createOk]

\* Copy's decision on what it found
CopyOf(c) ==
    CopyOutcome(c.eq, c.srcStat, c.srcRegular, c.dstStat, c.dstRegular, c.same,
                c.linkOk, c.openOk, c.createOk)

\* ConcurrentBackup.Begin -> Copy(cb.SourceFn, cb.BackupFn), Copy having found c
ConcurrentBeginWith(c) ==
    LET dest == BackupFn
        o == CopyOf(c)
    IN  /\ calls' = Append(calls, "bf.Begin")
        /\ IF CopyIsError(o)
           THEN /\ ret' = o
                /\ pc' = "done"
                /\ UNCHANGED <<dir, ino, done, worker>>
           ELSE /\ ret' = ret
                /\ pc' = "sfBegin"
                /\ CASE o = "linked" ->
                          /\ dir' = LinkFs(dir, "target", dest)
                          /\ UNCHANGED <<ino, done, worker>>
                     [] o = "pending" ->
                          /\ dir' = CreateDir(dir, dest)
                          /\ ino' = CreateIno(dir, ino, dest)
                          /\ done' = "open"
                          /\ worker' = [pc |-> "copy", pos |-> 0, err |-> "nil",
                                        src |-> dir["target"],
                                        dst |-> CreateDir(dir, dest)[dest]]
                     [] OTHER -> UNCHANGED <<dir, ino, done, worker>>

ConcurrentBegin ==
    \E srcFault, dstFault, linkOk, openOk, createOk \in BOOLEAN :
      ConcurrentBeginWith(CopyInputs(srcFault, dstFault, linkOk, openOk, createOk))

\* bf.Begin(), lines 78-80
BackupBegin ==
    /\ pc = "bfBegin"
    /\ IF BackupKind = "NoBackup"
       THEN /\ calls' = Append(calls, "bf.Begin")
            /\ pc' = "sfBegin"
            /\ UNCHANGED <<ret, dir, ino, done, worker>>
       ELSE ConcurrentBegin
    /\ UNCHANGED <<cfg, pre, data, sponge, consumed, reads, mutations, staged,
                   received, writeFailed, readErr, cleanupErr, preBackup>>
    /\ UNCHANGED <<expand, copy, resolve>>

\* io.Copy(dest, source) in DoConcurrentCopy, one chunk at a time: the next byte
\* of the source inode goes to the destination inode; at the end of the source
\* the copy ends without error; a read or write may fail at any step.
WorkerCopy ==
    /\ worker.pc = "copy"
    /\ \E fail \in BOOLEAN :
         IF fail
         THEN /\ worker' = [worker EXCEPT !.pc = "send", !.err = "copy failed"]
              /\ ino' = ino
         ELSE IF worker.pos < Len(ino[worker.src].data)
         THEN /\ ino' = [ino EXCEPT ![worker.dst].data =
                            Append(@, ino[worker.src].data[worker.pos + 1])]
              /\ worker' = [worker EXCEPT !.pos = @ + 1]
         ELSE /\ worker' = [worker EXCEPT !.pc = "close"]
              /\ ino' = ino
    /\ UNCHANGED <<cfg, pre, dir, pc, ret, data, sponge, done, consumed, reads,
                   calls, mutations, staged, received, writeFailed, readErr,
                   cleanupErr, preBackup>>
    /\ UNCHANGED <<expand, copy, resolve>>

\* close(done)
WorkerClose ==
    /\ worker.pc = "close"
    /\ done' = "closed"
    /\ worker' = [worker EXCEPT !.pc = "defer"]
    /\ UNCHANGED <<cfg, pre, dir, ino, pc, ret, data, sponge, consumed, reads,
                   calls, mutations, staged, received, writeFailed, readErr,
                   cleanupErr, preBackup>>
    /\ UNCHANGED <<expand, copy, resolve>>

\* the deferred dest.Close() and source.Close()
WorkerDefer ==
    /\ worker.pc = "defer"
    /\ worker' = [worker EXCEPT !.pc = "exit"]
    /\ UNCHANGED <<cfg, pre, dir, ino, pc, ret, data, sponge, done, consumed, reads,
                   calls, mutations, staged, received, writeFailed, readErr,
                   cleanupErr, preBackup>>
    /\ UNCHANGED <<expand, copy, resolve>>

\* a faulty receive: it does not wait for the worker
CanReceiveAlways == TRUE

\* <-cb.Done: the channel is unbuffered, so a receive meets the worker's send
\* (done <- err), or finds the channel closed and yields nil
CanReceive == worker.pc = "send" \/ done = "closed"

\* a faulty receive: the error the worker sends is lost
ReceivedAlwaysNil == "nil"

\* the value the receive yields, and the worker after it
Received == IF worker.pc = "send" THEN worker.err ELSE "nil"
AfterReceive == IF worker.pc = "send" THEN [worker EXCEPT !.pc = "close"] ELSE worker

----------------------------------------------------------------------------
(* The Stage Controller: Begin and Write, and the Transfer loop. *)

\* sf.Begin(), lines 81-84: only AtomicSponge.Begin does anything (ioutil.TempFile).
\* On failure the orchestrator goes on to bf.Abort() and returns the error.
StageBegin ==
    /\ pc = "sfBegin"
    /\ calls' = Append(calls, "sf.Begin")
    /\ IF SpongeKind = "AtomicSponge"
       THEN \E ok \in BOOLEAN :
              IF ok
              THEN /\ dir' = TempFileDir(dir)
                   /\ ino' = TempFileIno(ino)
                   /\ sponge' = [fn |-> "sponge", open |-> TRUE]
                   /\ staged' = staged + 1
                   /\ pc' = "transfer"
                   /\ ret' = ret
              ELSE /\ ret' = "create staging file"
                   /\ pc' = "bfAbortBegin"
                   /\ UNCHANGED <<dir, ino, sponge, staged>>
       ELSE /\ pc' = "transfer"
            /\ UNCHANGED <<ret, dir, ino, sponge, staged>>
    /\ UNCHANGED <<cfg, pre, data, done, worker, consumed, reads, mutations,
                   received, writeFailed, readErr, cleanupErr, preBackup>>
    /\ UNCHANGED <<expand, copy, resolve>>

\* AtomicSponge.Write: n bytes of d reached the file; an error of the write or a
\* short write is an error
AtomicWriteError(n, len) == IF n < len THEN "short write" ELSE "nil"

\* what a Read may deliver under the contract of io.Reader: up to the room left
\* in the input, with no error, with io.EOF or with a read error; the last Read
\* allowed must end the stream
ReaderResults ==
    {r \in [bytes : {InputData(Len(consumed), n) : n \in 0..(MaxInput - Len(consumed))},
             err : {"nil", "EOF", "read error"}] :
        reads + 1 = MaxReads => r.err # "nil"}

\* what in.Read(buf) delivers, in being an *os.File and buf not empty: bytes
\* with no error, or no byte with io.EOF (read(2) returned 0) or with the
\* error of read(2)
ReadResults ==
    {r \in ReaderResults : (Len(r.bytes) > 0) <=> (r.err = "nil")}

\* a faulty loop: a Read that delivers nothing ends it, whatever its error
TransferNextZeroReadEnds(n, err) ==
    IF n = 0 THEN "return nil"
    ELSE IF err # "nil" THEN "return err"
    ELSE "again"

\* a faulty loop: any error of Read ends it as the end of the stream does
TransferNextErrorIsEof(n, err) ==
    IF err # "nil" THEN "return nil" ELSE "again"

\* the body of Transfer's loop after the Read and the Write, lines 112-117
TransferNext(n, err) ==
    IF n = 0 /\ err = "EOF" THEN "return nil"
    ELSE IF err # "nil" THEN "return err"
    ELSE "again"

\* one turn of Transfer's loop for a Read that delivers one of results:
\* in.Read(buf), sf.Write(buf[:n]) when n > 0 with its result dropped, then the
\* tests of n and err
TransferLoop(results) ==
    /\ pc = "transfer"
    /\ \E r \in results :
         LET n == Len(r.bytes)
             next == TransferNext(n, r.err)
         IN  /\ reads' = reads + 1
             /\ readErr' = r.err
             /\ consumed' = consumed \o r.bytes
             /\ calls' = IF n > 0 THEN Append(calls, "sf.Write") ELSE calls
             /\ IF n = 0
                THEN UNCHANGED <<data, ino, writeFailed>>
                ELSE IF SpongeKind = "AtomicSponge"
                THEN \E w \in 0..n :
                       /\ ino' = [ino EXCEPT ![dir[sponge.fn]].data = @ \o Prefix(r.bytes, w)]
                       /\ writeFailed' = (writeFailed \/ AtomicWriteError(w, n) # "nil")
                       /\ data' = data
                ELSE /\ data' = data \o r.bytes
                     /\ UNCHANGED <<ino, writeFailed>>
             /\ CASE next = "return nil" -> pc' = "bfComplete" /\ ret' = ret
                  [] next = "return err" -> pc' = "bfAbort" /\ ret' = r.err
                  [] OTHER -> pc' = pc /\ ret' = ret
    /\ UNCHANGED <<cfg, pre, dir, sponge, done, worker, mutations, staged, received,
                   cleanupErr, preBackup>>
    /\ UNCHANGED <<expand, copy, resolve>>

\* one turn of the loop in a run of SpongeAction, which passes os.Stdin as in
\* (line 88)
TransferStep == TransferLoop(ReadResults)

----------------------------------------------------------------------------
(* The Backup Controller: Abort and Complete. *)

\* a faulty Abort and Complete: they return at once, whatever Done is
NothingPendingAlways == TRUE

\* a faulty Abort and Complete: Done is received from even when it is nil
NothingPendingNoBackupOnly == BackupKind = "NoBackup"

\* whether ConcurrentBackup.Abort / Complete return at once (NoBackup, or Done == nil)
NothingPending == BackupKind = "NoBackup" \/ done = "nil"

\* bf.Abort() after sf.Begin failed, line 82; then return err
BackupAbortBegin ==
    /\ pc = "bfAbortBegin"
    /\ NothingPending \/ CanReceive
    /\ calls' = Append(calls, "bf.Abort")
    /\ received' = IF NothingPending THEN received ELSE Append(received, Received)
    /\ worker' = IF NothingPending THEN worker ELSE AfterReceive
    /\ pc' = "done"
    /\ UNCHANGED <<cfg, pre, dir, ino, ret, data, sponge, done, consumed, reads,
                   mutations, staged, writeFailed, readErr, cleanupErr, preBackup>>
    /\ UNCHANGED <<expand, copy, resolve>>

\* bf.Abort(); sf.Abort(); return err, lines 90-92.  Every sponge's Abort does
\* nothing (AtomicMemorySponge.Abort calls its Writer's).
BackupAbort ==
    /\ pc = "bfAbort"
    /\ NothingPending \/ CanReceive
    /\ calls' = calls \o <<"bf.Abort", "sf.Abort">>
                      \o (IF SpongeKind = "AtomicMemorySponge" THEN <<"w.Abort">> ELSE <<>>)
    /\ received' = IF NothingPending THEN received ELSE Append(received, Received)
    /\ worker' = IF NothingPending THEN worker ELSE AfterReceive
    /\ pc' = "cleanup"
    /\ UNCHANGED <<cfg, pre, dir, ino, ret, data, sponge, done, consumed, reads,
                   mutations, staged, writeFailed, readErr, cleanupErr, preBackup>>
    /\ UNCHANGED <<expand, copy, resolve>>

\* a faulty Complete: the error the signal carries is not looked at
BackupCompleteErrorNoSignal(recv, statOk, chmodOk) ==
    IF ~statOk THEN "stat source"
    ELSE IF ~chmodOk THEN "chmod backup"
    ELSE "nil"

\* ConcurrentBackup.Complete after the receive, lines 194-201: recv is the value
\* received, statOk and chmodOk whether os.Stat(SourceFn) and os.Chmod succeed
BackupCompleteError(recv, statOk, chmodOk) ==
    IF recv # "nil" THEN recv
    ELSE IF ~statOk THEN "stat source"
    ELSE IF ~chmodOk THEN "chmod backup"
    ELSE "nil"

\* a faulty Complete: the backup's permission bits stay as the copy made them
BackupCompleteInoNoChmod(d, i, e, dest) == i

\* ConcurrentBackup.Complete, lines 197-201: with no error, the backup gets the
\* permission bits the target has now
BackupCompleteIno(d, i, e, dest) ==
    IF e = "nil" THEN ChmodIno(d, i, dest, i[d["target"]].mode) ELSE i

\* bf.Complete(), lines 94-97; on an error sf.Abort() and return it
BackupComplete ==
    /\ pc = "bfComplete"
    /\ NothingPending \/ CanReceive
    /\ IF NothingPending
       THEN /\ calls' = Append(calls, "bf.Complete")
            /\ pc' = "sfComplete"
            /\ UNCHANGED <<ret, ino, worker, received>>
       ELSE \E statFault, chmodOk \in BOOLEAN :
              LET statOk == StatOf(dir, "target", statFault) = "ok"
                  e == BackupCompleteError(Received, statOk, chmodOk)
              IN  /\ received' = Append(received, Received)
                  /\ worker' = AfterReceive
                  /\ ino' = BackupCompleteIno(dir, ino, e, BackupFn)
                  /\ IF e = "nil"
                     THEN /\ calls' = Append(calls, "bf.Complete")
                          /\ pc' = "sfComplete"
                          /\ ret' = ret
                     ELSE /\ calls' = calls \o <<"bf.Complete", "sf.Abort">>
                                \o (IF SpongeKind = "AtomicMemorySponge"
                                    THEN <<"w.Abort">> ELSE <<>>)
                          /\ pc' = "cleanup"
                          /\ ret' = e
    /\ UNCHANGED <<cfg, pre, dir, data, sponge, done, consumed, reads, mutations,
                   staged, writeFailed, readErr, cleanupErr, preBackup>>
    /\ UNCHANGED <<expand, copy, resolve>>

----------------------------------------------------------------------------
(* The Stage Controller: Complete and Cleanup. *)

\* MemorySponge.Complete, lines 263-266: the permission argument of WriteFile.
\* The test of err is the wrong way round: with the target present err is nil
\* and the mode stays DEFAULT_MODE; with the target absent err is not nil and fi
\* is nil, so fi.Mode() dereferences nil and the call panics.
MemoryCompleteMode(exists, fiMode) ==
    IF ~exists THEN "panic" ELSE DEFAULT_MODE

\* MemorySponge.Complete, lines 258-272
MemoryComplete ==
    /\ pc = "sfComplete"
    /\ SpongeKind = "MemorySponge"
    /\ calls' = Append(calls, "sf.Complete")
    /\ pc' = "cleanup"
    /\ \E statFault, openOk \in BOOLEAN : \E w \in 0..Len(data) :
         LET mode == MemoryCompleteMode(Target.exists, Target.mode)
             canOpen == openOk /\ Target.kind # "dir"
         IN  IF StatOf(dir, "target", statFault) = "err"
             THEN ret' = "stat target" /\ UNCHANGED <<dir, ino, mutations>>
             ELSE IF mode = "panic"
             THEN ret' = "panic" /\ UNCHANGED <<dir, ino, mutations>>
             ELSE IF ~canOpen
             THEN ret' = "write target" /\ UNCHANGED <<dir, ino, mutations>>
             ELSE /\ dir' = WriteFileDir(dir, "target")
                  /\ ino' = WriteFileIno(dir, ino, "target", data, mode, w)
                  /\ mutations' = Append(mutations, "write")
                  /\ ret' = IF w < Len(data) THEN "write target" ELSE "ok"
    /\ UNCHANGED <<cfg, pre, data, sponge, done, worker, consumed, reads, staged,
                   received, writeFailed, readErr, cleanupErr, preBackup>>
    /\ UNCHANGED <<expand, copy, resolve>>

\* AtomicSponge.Complete, lines 335-354: what it returns
AtomicCompleteError(closeOk, statOk, renameOk) ==
    IF ~closeOk THEN "close staging file"
    ELSE IF ~statOk THEN "stat target"
    ELSE IF ~renameOk THEN "rename"
    ELSE "nil"

\* AtomicSponge.Complete, lines 345-349: the staging file's bits after the
\* os.Chmod, whose failure is dropped
AtomicCompleteMode(targetExists, targetMode, chmodOk, spongeMode) ==
    IF targetExists /\ chmodOk THEN targetMode ELSE spongeMode

\* AtomicSponge.Complete on the file system (d, i), returning r
AtomicCompleteFrom(d, i, r) ==
    \E closeOk, statFault, chmodOk, renameFault \in BOOLEAN :
      LET t == FileAt(d, i, "target")
          renameOk == ~renameFault /\ t.kind # "dir"
          statOk == StatOf(d, "target", statFault) # "err"
          e == AtomicCompleteError(closeOk, statOk, renameOk)
          i2 == IF closeOk /\ statOk
                THEN ChmodIno(d, i, "sponge",
                              AtomicCompleteMode(t.exists, t.mode, chmodOk, i[d["sponge"]].mode))
                ELSE i
      IN  /\ sponge' = [sponge EXCEPT !.fn = "sponge", !.open = FALSE]
          /\ ino' = i2
          /\ IF e = "nil"
             THEN /\ dir' = RenameDir(d, "sponge", "target")
                  /\ mutations' = Append(mutations, "rename")
                  /\ ret' = r
             ELSE /\ dir' = d
                  /\ mutations' = mutations
                  /\ ret' = e

\* sf.Complete() of an AtomicSponge, lines 98-101
AtomicComplete ==
    /\ pc = "sfComplete"
    /\ SpongeKind = "AtomicSponge"
    /\ calls' = Append(calls, "sf.Complete")
    /\ pc' = "cleanup"
    /\ AtomicCompleteFrom(dir, ino, "ok")
    /\ UNCHANGED <<cfg, pre, data, done, worker, consumed, reads, staged,
                   received, writeFailed, readErr, cleanupErr, preBackup>>
    /\ UNCHANGED <<expand, copy, resolve>>

\* AtomicMemorySponge.Complete, lines 395-403: Begin, Write and Complete of the
\* inner AtomicSponge
AtomicMemoryComplete ==
    /\ pc = "sfComplete"
    /\ SpongeKind = "AtomicMemorySponge"
    /\ pc' = "cleanup"
    /\ \E beginOk \in BOOLEAN : \E w \in 0..Len(data) :
         IF ~beginOk
         THEN /\ calls' = calls \o <<"sf.Complete", "w.Begin">>
              /\ ret' = "create staging file"
              /\ UNCHANGED <<dir, ino, sponge, staged, mutations>>
         ELSE /\ staged' = staged + 1
              /\ IF AtomicWriteError(w, Len(data)) # "nil"
                 THEN /\ calls' = calls \o <<"sf.Complete", "w.Begin", "w.Write">>
                      /\ ret' = AtomicWriteError(w, Len(data))
                      /\ dir' = TempFileDir(dir)
                      /\ ino' = [TempFileIno(ino) EXCEPT !["sponge"].data = Prefix(data, w)]
                      /\ sponge' = [fn |-> "sponge", open |-> TRUE]
                      /\ mutations' = mutations
                 ELSE /\ calls' = calls \o <<"sf.Complete", "w.Begin", "w.Write", "w.Complete">>
                      /\ AtomicCompleteFrom(TempFileDir(dir),
                                            [TempFileIno(ino) EXCEPT !["sponge"].data = data],
                                            "ok")
    /\ UNCHANGED <<cfg, pre, data, done, worker, consumed, reads, received,
                   writeFailed, readErr, cleanupErr, preBackup>>
    /\ UNCHANGED <<expand, copy, resolve>>

\* a faulty Cleanup: it never removes
CleanupRemovesNothing == FALSE

\* AtomicSponge.Cleanup, lines 356-367: whether os.Remove is called.  os.Stat
\* of an empty SpongeFn reports that the file does not exist.
CleanupRemoves == ~LeaveDirty /\ sponge.fn # "" /\ Exists(dir, sponge.fn)

\* the deferred sf.Cleanup(), lines 85-87, whose result is dropped; then the
\* function returns ret
Cleanup ==
    /\ pc = "cleanup"
    /\ calls' = Append(calls, "sf.Cleanup")
                  \o (IF SpongeKind = "AtomicMemorySponge" THEN <<"w.Cleanup">> ELSE <<>>)
    /\ pc' = "done"
    /\ IF SpongeKind # "MemorySponge" /\ CleanupRemoves
       THEN \E removeOk \in BOOLEAN :
              /\ dir' = IF removeOk THEN RemoveDir(dir, sponge.fn) ELSE dir
              /\ cleanupErr' = IF removeOk THEN "nil" ELSE "remove staging file"
       ELSE dir' = dir /\ cleanupErr' = "nil"
    /\ UNCHANGED <<cfg, pre, ino, ret, data, sponge, done, worker, consumed, reads,
                   mutations, staged, received, writeFailed, readErr, preBackup>>
    /\ UNCHANGED <<expand, copy, resolve>>

----------------------------------------------------------------------------

Next ==
    \/ Configure
    \/ BackupBegin
    \/ StageBegin
    \/ TransferStep
    \/ BackupAbortBegin
    \/ BackupAbort
    \/ BackupComplete
    \/ MemoryComplete
    \/ AtomicComplete
    \/ AtomicMemoryComplete
    \/ Cleanup
    \/ WorkerCopy
    \/ WorkerClose
    \/ WorkerDefer

Spec == Init /\ [][Next]_vars

\* the steps of SpongeAction's own goroutine, and those of the goroutine that
\* Copy starts with go DoConcurrentCopy(...)
Foreground ==
    \/ Configure
    \/ BackupBegin
    \/ StageBegin
    \/ TransferStep
    \/ BackupAbortBegin
    \/ BackupAbort
    \/ BackupComplete
    \/ MemoryComplete
    \/ AtomicComplete
    \/ AtomicMemoryComplete
    \/ Cleanup

Background ==
    \/ WorkerCopy
    \/ WorkerClose
    \/ WorkerDefer

\* The initial states of the runs followed to their end.  No branch of the
\* program tests the permission bits of the target or which stream in is, so
\* one value of each stands for all.
FairInit ==
    /\ Init
    /\ pre.mode = "0600"
    /\ cfg.input # "file"

\* The Go scheduler lets every goroutine that can run take its next step, and
\* a system call returns: each of the two goroutines is weakly fair.  The
\* input ends within MaxReads reads (ReadResults) and the source is finite.
FairSpec == FairInit /\ [][Next]_vars /\ WF_vars(Foreground) /\ WF_vars(Background)

----------------------------------------------------------------------------
(* Transfer(in, sf), lines 104-120, for any reader. *)

\* the state in which SpongeAction calls Transfer: bf.Begin and sf.Begin have
\* returned nil, and in staged mode the staging file is there, empty and open.
\* No backup is requested and the target is absent: the loop touches neither.
InitTransfer ==
    /\ cfg \in {c \in [nargs : {1}, atomic : BOOLEAN, memory : BOOLEAN,
                        backup : {"none"}, input : {"stdin"}] : c.atomic => c.memory}
    /\ pre = [exists |-> FALSE, kind |-> "none", data |-> <<>>, mode |-> "0600"]
    /\ dir = IF SpongeKind = "AtomicSponge"
             THEN TempFileDir([p \in Paths |-> NoInode])
             ELSE [p \in Paths |-> NoInode]
    /\ ino = IF SpongeKind = "AtomicSponge"
             THEN TempFileIno([n \in InodeNames |-> FreeInode])
             ELSE [n \in InodeNames |-> FreeInode]
    /\ pc = "transfer"
    /\ ret = "running"
    /\ data = <<>>
    /\ sponge = IF SpongeKind = "AtomicSponge"
                THEN [fn |-> "sponge", open |-> TRUE]
                ELSE [fn |-> "", open |-> FALSE]
    /\ done = "nil"
    /\ worker = NoWorker
    /\ consumed = <<>>
    /\ reads = 0
    /\ calls = <<"bf.Begin", "sf.Begin">>
    /\ mutations = <<>>
    /\ staged = IF SpongeKind = "AtomicSponge" THEN 1 ELSE 0
    /\ received = <<>>
    /\ writeFailed = FALSE
    /\ readErr = "nil"
    /\ cleanupErr = "none"
    /\ preBackup = [exists |-> FALSE, kind |-> "none", data |-> <<>>, mode |-> "0600"]
    /\ expand = NoExpansion
    /\ copy = NoCopy
    /\ resolve = NoResolve

\* one turn of the loop with a Read that may deliver whatever the contract of
\* io.Reader allows
TransferAny == TransferLoop(ReaderResults)

NextTransfer == TransferAny

SpecTransfer == InitTransfer /\ [][NextTransfer]_vars

----------------------------------------------------------------------------
(* BackupFile(backupFile, targetFn), lines 296-300, one statement at a time. *)

\* NewConcurrentBackup calls BackupFile from GetBackup (line 65), before the
\* run has begun anything: a template and a target path, and no file yet
InitBackupFile ==
    /\ \E t \in Templates, f \in TargetFns :
         expand = [template |-> t, targetFn |-> f, backupFile |-> t, step |-> 0]
    /\ cfg = [nargs |-> 1, atomic |-> FALSE, memory |-> FALSE,
              backup |-> "other", input |-> "stdin"]
    /\ pre = [exists |-> FALSE, kind |-> "none", data |-> <<>>, mode |-> "0600"]
    /\ dir = [p \in Paths |-> NoInode]
    /\ ino = [n \in InodeNames |-> FreeInode]
    /\ pc = "start"
    /\ ret = "running"
    /\ data = <<>>
    /\ sponge = [fn |-> "", open |-> FALSE]
    /\ done = "nil"
    /\ worker = NoWorker
    /\ consumed = <<>>
    /\ reads = 0
    /\ calls = <<>>
    /\ mutations = <<>>
    /\ staged = 0
    /\ received = <<>>
    /\ writeFailed = FALSE
    /\ readErr = "nil"
    /\ cleanupErr = "none"
    /\ preBackup = [exists |-> FALSE, kind |-> "none", data |-> <<>>, mode |-> "0600"]
    /\ copy = NoCopy
    /\ resolve = NoResolve

\* backupFile = strings.Replace(backupFile, "{dir}", path.Dir(targetFn), -1)
ReplaceDir ==
    /\ expand.step = 0
    /\ expand' = [expand EXCEPT
                    !.backupFile = StringsReplace(@, "{dir}", PathDir(expand.targetFn)),
                    !.step = 1]
    /\ UNCHANGED <<runVars, copy, resolve>>

\* backupFile = strings.Replace(backupFile, "{base}", path.Base(targetFn), -1)
ReplaceBase ==
    /\ expand.step = 1
    /\ expand' = [expand EXCEPT
                    !.backupFile = StringsReplace(@, "{base}", PathBase(expand.targetFn)),
                    !.step = 2]
    /\ UNCHANGED <<runVars, copy, resolve>>

\* return strings.Replace(backupFile, "{file}", targetFn, -1)
ReplaceFile ==
    /\ expand.step = 2
    /\ expand' = [expand EXCEPT
                    !.backupFile = StringsReplace(@, "{file}", expand.targetFn),
                    !.step = 3]
    /\ UNCHANGED <<runVars, copy, resolve>>

NextBackupFile ==
    \/ ReplaceDir
    \/ ReplaceBase
    \/ ReplaceFile

SpecBackupFile == InitBackupFile /\ [][NextBackupFile]_vars

----------------------------------------------------------------------------
(* Copy on its own: the run up to ConcurrentBackup.Begin, the call of Copy
   keeping what it found and what it decided. *)

InitCopy == Init /\ cfg.backup # "none"

\* Copy(cb.SourceFn, cb.BackupFn) as ConcurrentBackup.Begin calls it
CopyCall ==
    /\ pc = "bfBegin"
    /\ BackupKind = "ConcurrentBackup"
    /\ \E srcFault, dstFault, linkOk, openOk, createOk \in BOOLEAN :
         LET c == CopyInputs(srcFault, dstFault, linkOk, openOk, createOk)
         IN  /\ ConcurrentBeginWith(c)
             /\ copy' = [called |-> TRUE, found |-> c, outcome |-> CopyOf(c)]
    /\ UNCHANGED <<cfg, pre, data, sponge, consumed, reads, mutations, staged,
                   received, writeFailed, readErr, cleanupErr, preBackup>>
    /\ UNCHANGED <<expand, resolve>>

NextCopy == Configure \/ CopyCall

SpecCopy == InitCopy /\ [][NextCopy]_vars

----------------------------------------------------------------------------
(* TempDir(tempDir, targetFn), lines 288-294, one statement at a time. *)

\* NewAtomicSponge calls TempDir from GetSpongeFile (line 69), before the run
\* has begun anything: the value of --tmpdir, a target path, and no file yet
InitTempDir ==
    /\ \E t \in Templates, f \in TargetFns :
         resolve = [tempDir |-> t, targetFn |-> f, result |-> <<>>, step |-> "called"]
    /\ cfg = [nargs |-> 1, atomic |-> FALSE, memory |-> FALSE,
              backup |-> "none", input |-> "stdin"]
    /\ pre = [exists |-> FALSE, kind |-> "none", data |-> <<>>, mode |-> "0600"]
    /\ dir = [p \in Paths |-> NoInode]
    /\ ino = [n \in InodeNames |-> FreeInode]
    /\ pc = "start"
    /\ ret = "running"
    /\ data = <<>>
    /\ sponge = [fn |-> "", open |-> FALSE]
    /\ done = "nil"
    /\ worker = NoWorker
    /\ consumed = <<>>
    /\ reads = 0
    /\ calls = <<>>
    /\ mutations = <<>>
    /\ staged = 0
    /\ received = <<>>
    /\ writeFailed = FALSE
    /\ readErr = "nil"
    /\ cleanupErr = "none"
    /\ preBackup = [exists |-> FALSE, kind |-> "none", data |-> <<>>, mode |-> "0600"]
    /\ expand = NoExpansion
    /\ copy = NoCopy

\* if tempDir == "" { return path.Dir(targetFn) }
TempDirDefault ==
    /\ resolve.step = "called"
    /\ resolve.tempDir = <<>>
    /\ resolve' = [resolve EXCEPT !.result = PathDir(resolve.targetFn),
                                  !.step = "returned"]
    /\ UNCHANGED <<runVars, expand, copy>>

\* tempDir = strings.Replace(tempDir, "{dir}", path.Dir(targetFn), -1)
TempDirReplaceDir ==
    /\ resolve.step = "called"
    /\ resolve.tempDir # <<>>
    /\ resolve' = [resolve EXCEPT
                     !.result = StringsReplace(resolve.tempDir, "{dir}",
                                               PathDir(resolve.targetFn)),
                     !.step = "dir replaced"]
    /\ UNCHANGED <<runVars, expand, copy>>

\* return strings.Replace(tempDir, "{base}", path.Base(targetFn), -1)
TempDirReplaceBase ==
    /\ resolve.step = "dir replaced"
    /\ resolve' = [resolve EXCEPT
                     !.result = StringsReplace(@, "{base}", PathBase(resolve.targetFn)),
                     !.step = "returned"]
    /\ UNCHANGED <<runVars, expand, copy>>

NextTempDir ==
    \/ TempDirDefault
    \/ TempDirReplaceDir
    \/ TempDirReplaceBase

SpecTempDir == InitTempDir /\ [][NextTempDir]_vars

----------------------------------------------------------------------------
(* Properties. *)

Returned == pc = "done"
Succeeded == pc = "done" /\ ret = "ok"
Called(m) == \E k \in 1..Len(calls) : calls[k] = m
StagedOrHybrid == SpongeKind \in {"AtomicSponge", "AtomicMemorySponge"}

\* the errors that come from the Backup Controller
BackupErrors ==
    {"Will not copy to same filename.", "stat source",
     "Cannot copy non-regular source file", "stat destination",
     "Cannot copy to non-regular destination", "open source",
     "create destination", "copy failed", "chmod backup"}

\* C1: after a run that reports success the target holds exactly the bytes the
\* Transfer loop read, in order, whatever the Stage Write calls returned.
C1_TargetEqualsInput ==
    Succeeded => Target.exists /\ Target.data = consumed

\* C2: with a backup requested and a target that existed with contents O, the
\* backup file holds exactly O after every successful run, in every mode.
C2_BackupHoldsOriginal ==
    (cfg.backup = "other" /\ pre.exists /\ Succeeded)
        => BackupCopy.exists /\ BackupCopy.data = pre.data

\* C3: in staged and hybrid mode the target path holds, in every state, either
\* its complete pre-run state or the complete contents of the closed staging
\* file; it changes at most once, by the rename of AtomicSponge.Complete.
C3_TargetAtomic ==
    StagedOrHybrid =>
        /\ Len(mutations) <= 1
        /\ mutations = <<>> => Target = pre
        /\ mutations # <<>> =>
             /\ mutations = <<"rename">>
             /\ Called("sf.Complete")
             /\ pc \in {"cleanup", "done"}
             /\ ret = "ok"
             /\ dir["target"] = "sponge"
             /\ ~sponge.open
             /\ Target.kind = "regular"
             /\ ~writeFailed => Target.data = consumed

\* a run in hybrid mode has replaced an existing target by the rename
C3_Witness ==
    /\ SpongeKind = "AtomicMemorySponge"
    /\ mutations = <<"rename">>
    /\ pre.exists
    /\ consumed # <<>>
    /\ Target.data = consumed

C5_StagingErrorAborts ==
    /\ (Returned /\ ret = "create staging file" /\ SpongeKind = "AtomicSponge")
          => Called("bf.Abort") /\ Target = pre
    /\ (Returned /\ writeFailed)
          => ret # "ok" /\ Called("bf.Abort") /\ Target = pre

\* C6: with a backup requested and a target that existed with permission bits
\* M, the backup file carries M after every successful run, on the hard-link
\* path and on the byte-copy path alike.
C6_BackupMode ==
    (cfg.backup = "other" /\ pre.exists /\ Succeeded)
        => BackupCopy.exists /\ BackupCopy.mode = pre.mode

\* a successful run whose backup was byte-copied over an older file with other bits
C6_Witness ==
    /\ cfg.backup = "other"
    /\ Succeeded
    /\ received = <<"nil">>
    /\ preBackup.exists
    /\ preBackup.mode # pre.mode
    /\ BackupCopy.mode = pre.mode

\* C7: in staged and hybrid mode, when the target existed with permission bits
\* M and AtomicSponge.Complete succeeds, the target carries M.
C7_TargetModeKept ==
    (StagedOrHybrid /\ pre.exists /\ mutations = <<"rename">>)
        => Target.mode = pre.mode

\* C8: when the backup path is the target path, Backup.Begin fails before any
\* link or copy, and the run ends there: no staging file, no input read, no
\* background copy, target unchanged, whether or not the target exists.
C8_SamePathRejected ==
    cfg.backup = "same" =>
        /\ staged = 0
        /\ reads = 0
        /\ done = "nil"
        /\ worker = NoWorker
        /\ Target = pre
        /\ BackupCopy = preBackup
        /\ ~Exists(dir, "sponge")
        /\ ~Called("sf.Begin")
        /\ Called("bf.Begin") =>
             pc = "done" /\ ret = "Will not copy to same filename."

\* the run was rejected for a target that does not exist
C8_Witness ==
    /\ cfg.backup = "same"
    /\ ~pre.exists
    /\ Returned
    /\ ret = "Will not copy to same filename."

\* C9: when the target does not exist and a backup path other than the target
\* is requested, Backup.Begin succeeds with no signal pending, Abort and
\* Complete return at once without error, and the backup path is never
\* created or changed.
C9_NoTargetNoBackup ==
    (cfg.backup = "other" /\ ~pre.exists) =>
        /\ done = "nil"
        /\ worker = NoWorker
        /\ received = <<>>
        /\ BackupCopy = preBackup
        /\ dir["backup"] \in {NoInode, "bak"}
        /\ ret \notin BackupErrors

\* a run that created the target, with Backup.Complete called and no backup made
C9_Witness ==
    /\ cfg.backup = "other"
    /\ ~pre.exists
    /\ Succeeded
    /\ Called("bf.Complete")
    /\ ~BackupCopy.exists
    /\ Target.exists

\* C10: in in-memory mode Complete neither fails nor crashes on the existence
\* check; a target that was absent is created with the input and DEFAULT_MODE,
\* one that existed is rewritten and keeps its permission bits.
C10_MemoryComplete ==
    (SpongeKind = "MemorySponge" /\ Called("sf.Complete")) =>
        /\ ret # "panic"
        /\ ret = "ok" =>
             /\ Target.data = consumed
             /\ Target.mode = (IF pre.exists THEN pre.mode ELSE DEFAULT_MODE)

\* the bytes of s all come from stream src
AllFrom(s, src) == \A k \in 1..Len(s) : s[k][1] = src

\* C11: the bytes the Transfer loop stages, and those a successful run leaves
\* in the target, are bytes of the stream OpenInput returned: the --input file
\* when one is given, standard input otherwise.
C11_AlternateInput ==
    /\ AllFrom(consumed, OpenedInput)
    /\ AllFrom(data, OpenedInput)
    /\ Exists(dir, "sponge") => AllFrom(ino[dir["sponge"]].data, OpenedInput)
    /\ Succeeded => AllFrom(Target.data, OpenedInput)

\* Backup.Complete was called and failed: the signal carried an error, or the
\* os.Stat / os.Chmod that copy the permission bits failed
SignalError == IF received # <<>> /\ received[1] # "nil" THEN received[1] ELSE "nil"
BackupCompleteFailed ==
    /\ Called("bf.Complete")
    /\ SignalError # "nil" \/ ret \in {"stat source", "chmod backup"}

\* what C12 says of such a run, but for the staging file
BackupFailureOutcome ==
    /\ pc \in {"cleanup", "done"}
    /\ ret = (IF SignalError # "nil" THEN SignalError ELSE ret)
    /\ ret \in {"copy failed", "stat source", "chmod backup"}
    /\ Called("sf.Abort")
    /\ ~Called("sf.Complete")
    /\ mutations = <<>>
    /\ Target = pre
    /\ Returned => Called("sf.Cleanup")

Untouched ==
    /\ calls = <<>>
    /\ reads = 0
    /\ consumed = <<>>
    /\ data = <<>>
    /\ staged = 0
    /\ sponge = [fn |-> "", open |-> FALSE]
    /\ done = "nil"
    /\ worker = NoWorker
    /\ received = <<>>
    /\ mutations = <<>>
    /\ Target = pre
    /\ BackupCopy = preBackup
    /\ ~Exists(dir, "sponge")

ConfigErrors ==
    {"Destination file required.", "Can only sponge to one destination.",
     "--atomic makes no sense wihout --memory"}

\* C13: a run with --atomic and without --memory is rejected with a
\* configuration error before anything is begun: no backup is created or
\* linked, no staging file is created, no input is read, the target is as before.
C13_AtomicNeedsMemory ==
    (cfg.atomic /\ ~cfg.memory) =>
        /\ Untouched
        /\ pc \in {"start", "done"}
        /\ Returned =>
             /\ ret \in ConfigErrors
             /\ cfg.nargs = 1 => ret = "--atomic makes no sense wihout --memory"

\* --atomic without --memory, one existing target, a backup requested: rejected
C13_Witness ==
    /\ cfg.atomic /\ ~cfg.memory
    /\ cfg.nargs = 1
    /\ cfg.backup = "other"
    /\ pre.exists /\ pre.kind = "regular"
    /\ Returned
    /\ ret = "--atomic makes no sense wihout --memory"

\* C14: a run with no target path, or with more than one, is rejected with a
\* configuration error before any input or output: Backup.Begin and
\* Stage.Begin are not called, no input is read, no file is touched.
C14_OneTargetRequired ==
    cfg.nargs # 1 =>
        /\ Untouched
        /\ pc \in {"start", "done"}
        /\ Returned =>
             ret = (IF cfg.nargs = 0 THEN "Destination file required."
                    ELSE "Can only sponge to one destination.")

\* two target paths in a mode that is otherwise valid: rejected
C14_Witness ==
    /\ cfg.nargs = 2
    /\ cfg.memory
    /\ cfg.backup = "other"
    /\ pre.exists /\ pre.kind = "regular"
    /\ Returned
    /\ ret = "Can only sponge to one destination."

\* the template P with each of its tokens replaced once, for the target T
RECURSIVE ExpandOnce(_, _)
ExpandOnce(P, T) ==
    IF P = <<>> THEN <<>>
    ELSE (CASE Head(P) = "{file}" -> T
            [] Head(P) = "{base}" -> PathBase(T)
            [] Head(P) = "{dir}" -> PathDir(T)
            [] OTHER -> <<Head(P)>>) \o ExpandOnce(Tail(P), T)

\* C15: BackupFile(P, T) is P with every {file} replaced by T, every {base} by
\* the final component of T and every {dir} by the directory of T, each token
\* of the template expanded exactly once and no inserted text expanded again;
\* /tmp/foo with {dir}/{base}.bak gives /tmp/foo.bak.
C15_BackupFileTemplate ==
    expand.step = 3 => expand.backupFile = ExpandOnce(expand.template, expand.targetFn)

\* the state in which the target may be committed: the Transfer loop has ended
\* with io.EOF, Backup.Complete was the last call and returned nil, and a
\* background copy, if one was started, has read the whole original, closed
\* the channel and had its signal received
CommitReady ==
    /\ pc = "sfComplete"
    /\ readErr = "EOF"
    /\ calls # <<>> /\ calls[Len(calls)] = "bf.Complete"
    /\ ~Called("bf.Abort") /\ ~Called("sf.Abort")
    /\ ret = "running"
    /\ done # "nil" =>
         /\ done = "closed"
         /\ received = <<"nil">>
         /\ worker.pc \in {"defer", "exit"}
         /\ worker.pos = Len(pre.data)

\* the background copy takes a step of io.Copy
CopyStep == worker.pc = "copy" /\ worker' # worker

\* C16: in every interleaving, a step that changes the target (the rename or
\* the truncating write) is taken only after the Transfer loop has finished
\* successfully and Backup.Complete has returned success, the background copy
\* having read all of the original and its signal having been received; and
\* every step of the background copy comes before any change of the target
\* and reads the pre-run contents.
C16_CommitOrdering ==
    [][ /\ (mutations' # mutations \/ FileAt(dir', ino', "target") # Target) => CommitReady
        /\ CopyStep =>
             /\ mutations = <<>>
             /\ Target = pre
             /\ dir["target"] = worker.src
             /\ ino[worker.src].data = pre.data ]_vars

\* the target was committed after a background copy that ran to the end
C16_Witness ==
    /\ mutations # <<>>
    /\ received = <<"nil">>
    /\ pre.data # <<>>
    /\ worker.pos = Len(pre.data)
    /\ BackupCopy.data = pre.data
    /\ consumed # <<>>
    /\ Succeeded

\* how many times the controller method m was called
CallCount(m) == Len(SelectSeq(calls, LAMBDA c : c = m))

\* C17: the channel Done carries at most one value: the worker sends one error
\* or none and then closes it; the foreground receives at most once, in one of
\* Backup.Abort and Backup.Complete and never in both; and when the run
\* returns, the signal of every copy that was started has been received.
C17_SingleFire ==
    /\ Len(received) <= 1
    /\ CallCount("bf.Abort") + CallCount("bf.Complete") <= 1
    /\ Len(received) <= CallCount("bf.Abort") + CallCount("bf.Complete")
    /\ received # <<>> => done # "nil"
    /\ worker.pc = "send" => received = <<>> /\ done = "open"
    /\ (received # <<>> /\ received[1] # "nil") =>
          /\ worker.err = received[1]
          /\ worker.pc \in {"close", "defer", "exit"}
    /\ received = <<"nil">> =>
          /\ worker.err = "nil"
          /\ done = "closed"
    /\ (Returned /\ done # "nil") => Len(received) = 1

\* a run that aborted after a read error received the copy's error in Abort
C17_Witness ==
    /\ Returned
    /\ Called("bf.Abort")
    /\ ret = "read error"
    /\ received = <<"copy failed">>
    /\ done = "closed"

\* a call of m is in calls before position k
CalledBefore(m, k) == \E j \in 1..(k - 1) : calls[j] = m

\* the protocol of one controller, with methods begin, complete and abort:
\* at most one of complete and abort is called, at most once, and only after
\* begin; and a run that has returned, and in which begin returned no error,
\* has called one of them
OneTerminal(begin, complete, abort, beginFailed) ==
    /\ CallCount(complete) + CallCount(abort) <= 1
    /\ \A k \in 1..Len(calls) : calls[k] \in {complete, abort} => CalledBefore(begin, k)
    /\ (Returned /\ Called(begin) /\ ~beginFailed) =>
          CallCount(complete) + CallCount(abort) = 1

\* Begin of the Backup Controller, of the Stage Controller, of the inner
\* AtomicSponge of hybrid mode returned an error
BackupBeginFailed == CopyIsError(ret) /\ ~Called("sf.Begin")
StageBeginFailed == ret = "create staging file" /\ SpongeKind = "AtomicSponge"
InnerBeginFailed == ret = "create staging file" /\ SpongeKind = "AtomicMemorySponge"

\* C18: on the Backup Controller, on the outer Stage Controller and on the
\* inner AtomicSponge of hybrid mode, every run whose Begin succeeded calls
\* exactly one of Complete and Abort, never both, never neither, and only
\* after that controller's Begin.
C18_OneTerminalTransition ==
    /\ OneTerminal("bf.Begin", "bf.Complete", "bf.Abort", BackupBeginFailed)
    /\ OneTerminal("sf.Begin", "sf.Complete", "sf.Abort", StageBeginFailed)
    /\ OneTerminal("w.Begin", "w.Complete", "w.Abort", InnerBeginFailed)

\* Stage.Cleanup was the last thing the run did (in hybrid mode sf.Cleanup
\* ends with the inner Cleanup it delegates to)
CleanupWasLast ==
    /\ CallCount("sf.Cleanup") = 1
    /\ calls[Len(calls)] = (IF SpongeKind = "AtomicMemorySponge" THEN "w.Cleanup"
                             ELSE "sf.Cleanup")
    /\ cleanupErr # "none"

\* C19: every run that passed the configuration checks and has returned ran
\* Stage.Cleanup as its last step, whether Backup.Begin, Stage.Begin, the
\* transfer, Backup.Complete or Stage.Complete failed or the run succeeded;
\* and an error of Cleanup is never what the run returns.
C19_CleanupAlways ==
    /\ (Returned /\ Called("bf.Begin")) => CleanupWasLast
    /\ ret # "remove staging file"
    /\ cleanupErr = "remove staging file" => Returned /\ ret # "running"

\* the foreground is at a call of Backup.Abort, and that call can return
AtAbort == pc \in {"bfAbort", "bfAbortBegin"}
AbortCanReturn == ENABLED (BackupAbort \/ BackupAbortBegin)

\* C20: Backup.Abort does not interrupt the background copy.  With no copy
\* started it returns at once and receives nothing; with a copy started it
\* cannot return while the worker is still copying, and it receives what the
\* worker sent, or nil from the closed channel.  So a run that aborted after
\* Stage.Begin or the transfer failed returns only once the copy has reached
\* the end of the source or failed, and a copy that did not fail has left the
\* backup holding all of the original.
C20_AbortWaits ==
    /\ (AtAbort /\ done = "nil") => AbortCanReturn
    /\ (AtAbort /\ done # "nil" /\ worker.pc = "copy") => ~AbortCanReturn
    /\ (Called("bf.Abort") /\ done = "nil") => received = <<>>
    /\ (Called("bf.Abort") /\ done # "nil") =>
          /\ Len(received) = 1
          /\ received[1] = worker.err
          /\ worker.pc \in {"close", "defer", "exit"}
          /\ received[1] = "nil" =>
                /\ worker.pos = Len(pre.data)
                /\ BackupCopy.exists
                /\ BackupCopy.data = pre.data

\* Stage.Begin failed with a copy in flight; the run returned after the copy
\* had written all of the original to the backup
C20_Witness ==
    /\ Returned
    /\ ret = "create staging file"
    /\ Called("bf.Abort")
    /\ received = <<"nil">>
    /\ Len(pre.data) > 1
    /\ BackupCopy.data = pre.data

\* the worker still holds the source and the backup file open: its deferred
\* Close calls run when DoConcurrentCopy returns
WorkerHoldsFiles == worker.pc \in {"copy", "send", "close", "defer"}

\* C21: the worker closes the source and the backup file before it signals:
\* in every state in which the foreground has received from Done, both files
\* are closed, so the chmod of Backup.Complete and the return of the run never
\* happen with the backup file still open in the worker.
C21_ClosedBeforeSignal ==
    received # <<>> => ~WorkerHoldsFiles

\* C22: when the input ends and the copy of the finite source ends, and the
\* foreground and the background goroutine are each weakly fair, every run
\* reaches its return, so the foreground does not wait for ever to receive
\* from Done; and at the return no worker is left copying or waiting to send
\* its error.
C22_Termination ==
    /\ <>Returned
    /\ [](Returned => worker.pc \notin {"copy", "send"})

\* a run returned after Backup.Complete had received the error of a failed
\* copy, and the worker has ended
C22_Witness ==
    /\ Returned
    /\ Called("bf.Complete")
    /\ received = <<"copy failed">>
    /\ worker.pc = "exit"

\* a turn of the Transfer loop, the bytes its Read delivered and their number
ReadTaken == reads' = reads + 1
BytesRead == SubSeq(consumed', Len(consumed) + 1, Len(consumed'))
NRead == Len(consumed') - Len(consumed)

\* what C23 says of every turn but for how the loop ends: Stage.Write is
\* called once, with the bytes read, when the Read delivered any, and not
\* otherwise; a Read with no error, of no byte too, lets the loop go on
TransferWrites ==
    /\ calls' = (IF NRead > 0 THEN Append(calls, "sf.Write") ELSE calls)
    /\ SpongeKind # "AtomicSponge" => data' = data \o BytesRead
    /\ readErr' = "nil" => pc' = "transfer" /\ ret' = ret

CommittedAlike ==
    /\ Target.exists
    /\ Target.data = consumed
    /\ Target.mode = (IF pre.exists THEN pre.mode ELSE TempFileMode)

\* C24: a staged run and a hybrid run that succeed on the same input and the
\* same target end with the same target contents and permission bits; in
\* hybrid mode there is no staging file before Complete, so a run aborted in
\* the transfer never made one; and when the inner Begin, Write or Complete
\* fails inside Complete, that error is returned, the target is not replaced
\* and Cleanup removes the inner staging file.
C24_HybridRefinesStaged ==
    /\ (StagedOrHybrid /\ Succeeded) => CommittedAlike
    /\ (SpongeKind = "AtomicMemorySponge" /\ ~Called("sf.Complete")) =>
          staged = 0 /\ ~Exists(dir, "sponge")
    /\ (SpongeKind = "AtomicMemorySponge" /\ Called("sf.Complete") /\ ret # "ok") =>
          /\ ret \in {"create staging file", "short write", "close staging file",
                       "stat target", "rename"}
          /\ mutations = <<>>
          /\ Target = pre
          /\ Returned => ~Exists(dir, "sponge")

\* C25: in staged and hybrid mode the target differs from its pre-run state
\* only after a rename that succeeded, and then the run reports success; a
\* run that has failed, a rename that failed included, leaves the target with
\* the contents, the permission bits and the existence it had.
C25_FailureFrame ==
    StagedOrHybrid =>
        /\ Target # pre => mutations = <<"rename">> /\ ret = "ok"
        /\ (ret \notin {"running", "ok"}) => Target = pre /\ mutations = <<>>
        /\ (Returned /\ ret # "ok") => Target = pre

\* a hybrid run over an existing target whose rename failed: returned with
\* the target as it was
C25_Witness ==
    /\ SpongeKind = "AtomicMemorySponge"
    /\ Returned
    /\ ret = "rename"
    /\ pre.exists /\ pre.kind = "regular"
    /\ consumed # <<>>
    /\ Target = pre

\* the ordered list of outcomes, for a call of Copy in which no os.Stat of a
\* file that is there fails
ListedOutcome(c) ==
    IF c.eq THEN "error: same path"
    ELSE IF c.srcStat = "notexist" THEN "already satisfied: no source"
    ELSE IF ~c.srcRegular THEN "error: source not regular"
    ELSE IF c.dstStat = "ok" /\ ~c.dstRegular THEN "error: destination not regular"
    ELSE IF c.same THEN "already satisfied: same file"
    ELSE IF c.linkOk THEN "already satisfied: linked"
    ELSE IF ~c.openOk \/ ~c.createOk THEN "error: open or create"
    ELSE "pending"

\* the place of each of Copy's results in that list
OutcomeListed(o) ==
    CASE o = "Will not copy to same filename." -> "error: same path"
      [] o = "skip: no source" -> "already satisfied: no source"
      [] o = "Cannot copy non-regular source file" -> "error: source not regular"
      [] o = "Cannot copy to non-regular destination" -> "error: destination not regular"
      [] o = "skip: same file" -> "already satisfied: same file"
      [] o = "linked" -> "already satisfied: linked"
      [] o \in {"open source", "create destination"} -> "error: open or create"
      [] o = "pending" -> "pending"
      [] OTHER -> "not listed"

BackgroundCopyStarted == worker # NoWorker /\ done = "open"

\* C26: when no stat of an existing file fails, Copy returns the first
\* applicable outcome of the ordered list (same path: error; source missing:
\* already satisfied, nothing created; source not regular: error; destination
\* there and not regular: error; same file: already satisfied; hard link made:
\* already satisfied; open or create fails: error; otherwise pending).  An
\* error is what the run returns.  A background copy is started exactly when
\* the outcome is pending, and a call that returns no error and makes no
\* backup is one whose source is missing or whose two names are the same file.
C26_CopyDecisionOrder ==
    copy.called =>
        LET c == copy.found
            o == copy.outcome
        IN  /\ (c.srcStat # "err" /\ c.dstStat # "err") => OutcomeListed(o) = ListedOutcome(c)
            /\ CopyIsError(o) <=> (pc = "done" /\ ret = o)
            /\ BackgroundCopyStarted <=> o = "pending"
            /\ o = "pending" => /\ worker.pc = "copy"
                                /\ worker.src = dir["target"]
                                /\ worker.dst = dir[BackupFn]
                                /\ ino[worker.dst].data = <<>>
            /\ o \in {"skip: no source", "skip: same file"} =>
                   /\ BackupCopy = preBackup
                   /\ Target = pre
            /\ o = "linked" => dir[BackupFn] = dir["target"]
            /\ (~CopyIsError(o) /\ o \notin {"linked", "pending"}) =>
                   (c.srcStat = "notexist" \/ c.same)

\* Copy found a regular source and a destination that is not there, the link
\* failed, and the background copy was started
C26_Witness ==
    /\ copy.called
    /\ copy.found.srcStat = "ok" /\ copy.found.srcRegular
    /\ copy.found.dstStat = "notexist"
    /\ ~copy.found.linkOk
    /\ copy.outcome = "pending"
    /\ BackgroundCopyStarted

\* the run has returned after a Stage.Begin that succeeded
ReturnedAfterStageBegin == Returned /\ Called("sf.Begin") /\ ~StageBeginFailed

PlainPath(p) == \A k \in 1..Len(p) : p[k] \notin {"{dir}", "{base}", "{file}"}

\* C28: for a target path that holds no token text, TempDir resolves the
\* override by replacing every {file} with the target path, every {base} with
\* its final component and every {dir} with its directory, as BackupFile does
\* with its template; an empty override resolves to the target's directory.
C28_TempDirTokens ==
    (resolve.step = "returned" /\ PlainPath(resolve.targetFn)) =>
        resolve.result = (IF resolve.tempDir = <<>> THEN PathDir(resolve.targetFn)
                          ELSE ExpandOnce(resolve.tempDir, resolve.targetFn))
====
